---- MODULE Spec2Model ----
(***************************************************************************)
(* Model of loftus_mason.py: loftus_mason_sem and normalized_sem.          *)
(*                                                                         *)
(* Numbers.  The functions work on floating point arrays and take square   *)
(* roots.  The model computes with exact values: a number is a record      *)
(*   [k |-> "rat",  n, d]   the rational n/d (d > 0, lowest terms)          *)
(*   [k |-> "sqrt", n, d]   the non-negative square root of n/d             *)
(*   [k |-> "nan"], [k |-> "inf"]   the IEEE results of 0/0 and x/0         *)
(* so every identity below is an identity of exact arithmetic; rounding of *)
(* the floating point operations is not modelled.  M / (M - 1) is true     *)
(* division (Python 3).  Indices are 1-based here, 0-based in the source.  *)
(***************************************************************************)
EXTENDS Integers, Sequences, FiniteSets, TLC

\* ---- bounds of the checked instance ----
MaxM ==
  3
MaxN ==
  2
MaxSum ==
  2
MaxOffset ==
  1
MaxScale ==
  2

\* ---- exact arithmetic standing for the float operations ----
Abs(x) ==
  IF x < 0 THEN -x ELSE x

RECURSIVE GCD(_, _)
GCD(a, b) ==
  IF b = 0 THEN a ELSE GCD(b, a % b)

NaN ==
  [k |-> "nan", n |-> 0, d |-> 0]

Inf ==
  [k |-> "inf", n |-> 0, d |-> 0]

\* n/d of the given kind in lowest terms; d > 0
Frac(kind, n, d) ==
  LET g == GCD(Abs(n), d)
  IN  [k |-> kind, n |-> n \div g, d |-> d \div g]

Float(x) ==
  Frac("rat", x, 1)

IsFinite(a) ==
  a.k \in {"rat", "sqrt"}

IsZero(a) ==
  IsFinite(a) /\ a.n = 0

Add(a, b) ==
  IF a.k = "nan" \/ b.k = "nan" THEN NaN
  ELSE IF a.k = "inf" \/ b.k = "inf" THEN Inf
  ELSE Frac("rat", a.n * b.d + b.n * a.d, a.d * b.d)

Sub(a, b) ==
  IF a.k = "nan" \/ b.k = "nan" THEN NaN
  ELSE IF a.k = "inf" /\ b.k = "inf" THEN NaN
  ELSE IF a.k = "inf" \/ b.k = "inf" THEN Inf
  ELSE Frac("rat", a.n * b.d - b.n * a.d, a.d * b.d)

\* product of two rationals, or of two square roots
Mul(a, b) ==
  IF a.k = "nan" \/ b.k = "nan" THEN NaN
  ELSE IF a.k = "inf" \/ b.k = "inf"
       THEN IF IsZero(a) \/ IsZero(b) THEN NaN ELSE Inf
  ELSE Frac(a.k, a.n * b.n, a.d * b.d)

\* quotient of two rationals, or of two square roots; IEEE division by zero
Div(a, b) ==
  IF a.k = "nan" \/ b.k = "nan" THEN NaN
  ELSE IF a.k = "inf" THEN (IF b.k = "inf" THEN NaN ELSE Inf)
  ELSE IF b.k = "inf" THEN Frac(a.k, 0, 1)
  ELSE IF b.n = 0 THEN (IF a.n = 0 THEN NaN ELSE Inf)
  ELSE IF b.n < 0 THEN Frac(a.k, (-a.n) * b.d, a.d * (-b.n))
  ELSE Frac(a.k, a.n * b.d, a.d * b.n)

\* np.sqrt: nan for a negative argument
Sqrt(a) ==
  IF a.k = "nan" THEN NaN
  ELSE IF a.k = "inf" THEN Inf
  ELSE IF a.n < 0 THEN NaN
  ELSE [k |-> "sqrt", n |-> a.n, d |-> a.d]

\* np.square
Square(a) ==
  IF a.k = "nan" THEN NaN
  ELSE IF a.k = "inf" THEN Inf
  ELSE IF a.k = "sqrt" THEN [k |-> "rat", n |-> a.n, d |-> a.d]
  ELSE Frac("rat", a.n * a.n, a.d * a.d)

\* a > b for rationals (comparisons with nan are false)
Gt(a, b) ==
  a.k = "rat" /\ b.k = "rat" /\ a.n * b.d > b.n * a.d

\* ---- numpy primitives ----
np_asarray(m) ==
  [i \in 1..Len(m) |-> [j \in 1..Len(m[i]) |-> Float(m[i][j])]]

np_zeros(R, C) ==
  [i \in 1..R |-> [j \in 1..C |-> Float(0)]]

np_ones(R, C) ==
  [i \in 1..R |-> [j \in 1..C |-> Float(1)]]

RECURSIVE np_sum(_)
np_sum(x) ==
  IF Len(x) = 0 THEN Float(0)
  ELSE Add(np_sum(SubSeq(x, 1, Len(x) - 1)), x[Len(x)])

\* np.mean with integer (floor) division of the sum
np_mean_floor(x) ==
  LET s == np_sum(x)
  IN  IF Len(x) = 0 \/ s.k # "rat" THEN Div(s, Float(Len(x)))
      ELSE Float((s.n \div s.d) \div Len(x))

\* np.mean of a vector: sum / count (0/0 = nan for an empty vector)
np_mean(x) ==
  Div(np_sum(x), Float(Len(x)))

\* np.std with the operands of N - ddof swapped
np_std_swapped(x, ddof) ==
  LET N       == Len(x)
      arrmean == np_mean(x)
      sq      == [t \in 1..N |-> Square(Sub(x[t], arrmean))]
  IN  Sqrt(Div(np_sum(sq), Float(ddof - N)))

\* np.std(x, ddof=ddof): sqrt(sum((x - mean)^2) / max(N - ddof, 0))
np_std(x, ddof) ==
  LET N       == Len(x)
      arrmean == np_mean(x)
      sq      == [t \in 1..N |-> Square(Sub(x[t], arrmean))]
      rcount  == IF N - ddof > 0 THEN N - ddof ELSE 0
  IN  Sqrt(Div(np_sum(sq), Float(rcount)))

\* np.triu(m, k): entries below the k-th diagonal zeroed
np_triu(m, k) ==
  [i \in 1..Len(m) |->
     [j \in 1..Len(m[i]) |-> IF j - i >= k THEN m[i][j] ELSE Float(0)]]

\* a[mask]: the entries of a where mask is true, in row-major order
RECURSIVE BoolIndex(_, _, _)
BoolIndex(a, mask, p) ==
  LET C == Len(a[1])
      i == ((p - 1) \div C) + 1
      j == ((p - 1) % C) + 1
  IN  IF p > Len(a) * C THEN << >>
      ELSE IF mask[i][j] THEN << a[i][j] >> \o BoolIndex(a, mask, p + 1)
      ELSE BoolIndex(a, mask, p + 1)

\* ---- loftus_mason_sem ----
\* values[i] + values[j] (sign slip)
RowSum(a, b) ==
  [t \in 1..Len(a) |-> Add(a[t], b[t])]

\* values[i] - values[j]
RowDiff(a, b) ==
  [t \in 1..Len(a) |-> Sub(a[t], b[t])]

\* for j in range(i + 1, M): sem_diff[i, j] = ...; writes is the trace of
\* the positions assigned, in order
RECURSIVE InnerLoop(_, _, _, _)
InnerLoop(v, st, i, j) ==
  LET M == Len(v)
      N == Len(v[1])
  IN  IF j > M THEN st
      ELSE InnerLoop(v,
             [sem_diff |-> [st.sem_diff EXCEPT ![i][j] =
                              Div(np_std(RowDiff(v[i], v[j]), 1), Sqrt(Float(N)))],
              writes   |-> Append(st.writes, <<i, j>>)],
             i, j + 1)

\* the outer loop with the inner range starting at i instead of i + 1
RECURSIVE OuterLoopFromDiagonal(_, _, _)
OuterLoopFromDiagonal(v, st, i) ==
  IF i > Len(v) THEN st
  ELSE OuterLoopFromDiagonal(v, InnerLoop(v, st, i, i), i + 1)

\* for i in range(M): for j in range(i + 1, M): ...
RECURSIVE OuterLoop(_, _, _)
OuterLoop(v, st, i) ==
  IF i > Len(v) THEN st
  ELSE OuterLoop(v, InnerLoop(v, st, i, i + 1), i + 1)

\* mask = np.triu(np.ones([M, M]), 1) > .5
Mask(M) ==
  LET t == np_triu(np_ones(M, M), 1)
  IN  [i \in 1..M |-> [j \in 1..M |-> Gt(t[i][j], Frac("rat", 1, 2))]]

\* the whole call; values is the caller's array after the call (np.asarray
\* of an array is the array itself)
loftus_mason_sem(v) ==
  LET M        == Len(v)
      N        == Len(v[1])
      st       == OuterLoop(v, [sem_diff |-> np_zeros(M, M), writes |-> << >>], 1)
      mask     == Mask(M)
      sel      == BoolIndex(st.sem_diff, mask, 1)
      halves   == [t \in 1..Len(sel) |-> Div(Square(sel[t]), Float(2))]
      radicand == np_mean(halves)
  IN  [kind     |-> "return",
       error    |-> "",
       ret      |-> Sqrt(radicand),
       radicand |-> radicand,
       sem_diff |-> st.sem_diff,
       writes   |-> st.writes,
       mask     |-> mask,
       values   |-> v]

\* ---- normalized_sem ----
\* np.mean(values): the mean of all cells, for every column
ColMeansGlobal(v) ==
  LET flat == [p \in 1..(Len(v) * Len(v[1])) |->
                 v[((p - 1) \div Len(v[1])) + 1][((p - 1) % Len(v[1])) + 1]]
  IN  [n \in 1..Len(v[1]) |-> np_mean(flat)]

\* np.mean(values, 0): the mean of every column (subject)
ColMeans(v) ==
  [n \in 1..Len(v[1]) |-> np_mean([m \in 1..Len(v) |-> v[m][n]])]

\* values - np.mean(values, 1)[:, None]: centred by condition instead
CenterByRow(v) ==
  [m \in 1..Len(v) |-> [n \in 1..Len(v[1]) |-> Sub(v[m][n], np_mean(v[m]))]]

\* values - np.mean(values, 0): a new array, broadcast over the rows
Center(v) ==
  LET mu == ColMeans(v)
  IN  [m \in 1..Len(v) |-> [n \in 1..Len(v[1]) |-> Sub(v[m][n], mu[n])]]

\* np.std(c, axis=0, ddof=ddof): one entry per column
StdAxis0(c, ddof) ==
  [n \in 1..Len(c[1]) |-> np_std([m \in 1..Len(c) |-> c[m][n]], ddof)]

\* np.std(c, axis=1, ddof=ddof): one entry per row
StdAxis1(c, ddof) ==
  [m \in 1..Len(c) |-> np_std(c[m], ddof)]

\* M // (M - 1)
BiasFactorFloorDiv(M) ==
  Float(M \div (M - 1))

\* M / (M - 1), M - 1 # 0
BiasFactor(M) ==
  Frac("rat", M, M - 1)

\* the call with the centring done in place (values -= np.mean(values, 0))
normalized_sem_inplace(v) ==
  LET M        == Len(v)
      N        == Len(v[1])
      centered == Center(v)
      std      == StdAxis1(centered, 1)
      sem      == [m \in 1..Len(std) |-> Div(std[m], Sqrt(Float(N)))]
  IN  IF M - 1 = 0
      THEN [kind |-> "raise", error |-> "ZeroDivisionError", ret |-> << >>,
            centered |-> centered, values |-> centered]
      ELSE [kind |-> "return", error |-> "",
            ret  |-> [m \in 1..Len(sem) |-> Mul(sem[m], Sqrt(BiasFactor(M)))],
            centered |-> centered, values |-> centered]

\* the whole call; M / (M - 1) raises ZeroDivisionError for M = 1, after sem
\* has been computed
normalized_sem(v) ==
  LET M        == Len(v)
      N        == Len(v[1])
      centered == Center(v)
      std      == StdAxis1(centered, 1)
      sem      == [m \in 1..Len(std) |-> Div(std[m], Sqrt(Float(N)))]
  IN  IF M - 1 = 0
      THEN [kind |-> "raise", error |-> "ZeroDivisionError", ret |-> << >>,
            centered |-> centered, values |-> v]
      ELSE [kind |-> "return", error |-> "",
            ret  |-> [m \in 1..Len(sem) |-> Mul(sem[m], Sqrt(BiasFactor(M)))],
            centered |-> centered, values |-> v]

\* ---- the state machine: a caller holding one matrix and calling ----
VARIABLES values, lm, ns

vars ==
  <<values, lm, ns>>

NoCall ==
  [kind |-> "none"]

Example1 ==
  << <<1, 2, 3, 4>>, <<2, 3, 4, 5>> >>

Example2 ==
  << <<1, 1, 1>>, <<2, 2, 2>>, <<3, 3, 3>> >>

\* the vectors of L naturals whose sum is at most S
RECURSIVE Vectors(_, _)
Vectors(L, S) ==
  IF L = 0 THEN { << >> }
  ELSE UNION { { Append(x, c) : x \in Vectors(L - 1, S - c) } : c \in 0..S }

Reshape(x, M, N) ==
  [i \in 1..M |-> [j \in 1..N |-> x[(i - 1) * N + j]]]

\* the M x N matrices of naturals, M <= MaxM, N <= MaxN, whose cells sum to
\* at most MaxSum
IntMatrices ==
  UNION { { Reshape(x, M, N) : x \in Vectors(M * N, MaxSum) } :
          M \in 1..MaxM, N \in 1..MaxN }

Inputs ==
  { np_asarray(m) : m \in IntMatrices \cup {Example1, Example2} }

Init ==
  /\ values \in Inputs
  /\ lm = NoCall
  /\ ns = NoCall

CallLoftus ==
  /\ LET r == loftus_mason_sem(values)
     IN  /\ lm' = r
         /\ values' = r.values
  /\ UNCHANGED ns

CallNormalized ==
  /\ LET r == normalized_sem(values)
     IN  /\ ns' = r
         /\ values' = r.values
  /\ UNCHANGED lm

Next ==
  \/ CallLoftus
  \/ CallNormalized

Spec ==
  Init /\ [][Next]_vars

\* ---- vocabulary of the properties ----
NumM ==
  Len(values)

NumN ==
  Len(values[1])

Valid ==
  NumM >= 2 /\ NumN >= 2

LmCalled ==
  lm.kind # "none"

NsCalled ==
  ns.kind # "none"

NonNegative(a) ==
  a.k = "sqrt" /\ a.n >= 0 /\ a.d > 0

\* sample variance (divisor N - 1) by the sum-of-squares formula
RefVar(x) ==
  LET N  == Len(x)
      s  == np_sum(x)
      s2 == np_sum([t \in 1..N |-> Mul(x[t], x[t])])
  IN  Div(Sub(Mul(Float(N), s2), Mul(s, s)), Float(N * (N - 1)))

UpperPairs(M) ==
  { p \in (1..M) \X (1..M) : p[1] < p[2] }

RECURSIVE RefPairSum(_, _)
RefPairSum(v, S) ==
  IF S = {} THEN Float(0)
  ELSE LET p == CHOOSE q \in S : TRUE
       IN  Add(Div(RefVar(RowDiff(v[p[1]], v[p[2]])), Float(2 * Len(v[1]))),
               RefPairSum(v, S \ {p}))

AddToColumn(v, n, c) ==
  [m \in 1..Len(v) |->
     [t \in 1..Len(v[1]) |-> IF t = n THEN Add(v[m][t], Float(c)) ELSE v[m][t]]]

Scale(v, c) ==
  [m \in 1..Len(v) |-> [t \in 1..Len(v[1]) |-> Mul(v[m][t], Float(c))]]

\* ---- properties ----

\* C1: for a matrix with M = 1 or N = 1 both functions end in an
\* InvalidShapeError and neither returns a result.
C1_DegenerateRaisesInvalidShape ==
  (NumM = 1 \/ NumN = 1) =>
     /\ LmCalled => (lm.kind = "raise" /\ lm.error = "InvalidShapeError")
     /\ NsCalled => (ns.kind = "raise" /\ ns.error = "InvalidShapeError")

\* C2: for a valid matrix loftus_mason_sem returns one value >= 0, and the
\* quantity under the final square root is not negative.
C2_LoftusNonNegative ==
  (Valid /\ LmCalled) =>
     /\ lm.kind = "return"
     /\ lm.radicand.k = "rat" /\ lm.radicand.n >= 0
     /\ NonNegative(lm.ret)

C2_Witness ==
  Valid /\ LmCalled /\ lm.kind = "return" /\ lm.ret.k = "sqrt" /\ lm.ret.n > 0

\* C3: for a valid matrix normalized_sem returns a vector of exactly M
\* entries, every entry >= 0, entry m being the corrected standard error of
\* condition row m.
C3_NormalizedLengthNonNegative ==
  (Valid /\ NsCalled) =>
     /\ ns.kind = "return"
     /\ Len(ns.ret) = NumM
     /\ \A m \in 1..NumM :
          /\ NonNegative(ns.ret[m])
          /\ Square(ns.ret[m]) =
               Div(Mul(Frac("rat", NumM, NumM - 1), RefVar(Center(values)[m])),
                   Float(NumN))

C3_Witness ==
  /\ Valid /\ NsCalled /\ NumM # NumN
  /\ \E m \in 1..NumM : ns.ret[m].n > 0
  /\ \E m \in 1..NumM : ns.ret[m] # ns.ret[1]

Offsets ==
  ((-MaxOffset)..MaxOffset) \ {0}

\* C4: adding a constant k to every value of one subject column n changes
\* neither the result of loftus_mason_sem nor any entry of the result of
\* normalized_sem.
C4_SubjectOffsetInvariance ==
  Valid =>
     \A n \in 1..NumN : \A c \in Offsets :
        /\ LmCalled => loftus_mason_sem(AddToColumn(values, n, c)).ret = lm.ret
        /\ NsCalled => normalized_sem(AddToColumn(values, n, c)).ret = ns.ret

C4_Witness ==
  /\ Valid /\ LmCalled /\ NsCalled
  /\ lm.ret.n > 0
  /\ \E m \in 1..NumM : ns.ret[m].n > 0

\* C5: multiplying every cell by a positive scalar c multiplies the result of
\* loftus_mason_sem and every entry of the result of normalized_sem by c
\* (the squared outputs by c * c, the outputs staying non-negative).
C5_ScaleCovariance ==
  Valid =>
     \A c \in 1..MaxScale :
        /\ LmCalled =>
             LET r == loftus_mason_sem(Scale(values, c)).ret
             IN  NonNegative(r) /\ Square(r) = Mul(Float(c * c), Square(lm.ret))
        /\ NsCalled =>
             LET r == normalized_sem(Scale(values, c)).ret
             IN  /\ Len(r) = Len(ns.ret)
                 /\ \A m \in 1..Len(r) :
                      /\ NonNegative(r[m])
                      /\ Square(r[m]) = Mul(Float(c * c), Square(ns.ret[m]))

C5_Witness ==
  /\ Valid /\ LmCalled /\ NsCalled /\ MaxScale >= 2
  /\ lm.ret.n > 0
  /\ \E m \in 1..NumM : ns.ret[m].n > 0

\* the per-subject difference of every pair of conditions is the same for
\* all subjects
ConstantDifferences ==
  \A i \in 1..NumM : \A j \in 1..NumM : \A s \in 1..NumN : \A t \in 1..NumN :
     Sub(values[i][s], values[j][s]) = Sub(values[i][t], values[j][t])

\* C6: when every pairwise difference of conditions is constant over the
\* subjects, loftus_mason_sem returns exactly 0.
C6_ConstantDifferencesGiveZero ==
  (Valid /\ LmCalled /\ ConstantDifferences) =>
     (lm.kind = "return" /\ lm.ret = Sqrt(Float(0)))

C6_Witness ==
  /\ values = np_asarray(Example1)
  /\ LmCalled
  /\ lm.ret = Sqrt(Float(0))

\* each condition row has the same value for all subjects
NoSubjectVariability ==
  \A m \in 1..NumM : \A s \in 1..NumN : values[m][s] = values[m][1]

AllZeroVector(x) ==
  \A m \in 1..Len(x) : x[m] = Sqrt(Float(0))

\* C7 as stated: without subject variability normalized_sem returns M zeros,
\* through a centred matrix whose values are all 0.
C7_ZerosThroughZeroCenteredMatrix ==
  (Valid /\ NsCalled /\ NoSubjectVariability) =>
     /\ ns.kind = "return" /\ Len(ns.ret) = NumM /\ AllZeroVector(ns.ret)
     /\ \A m \in 1..NumM : \A s \in 1..NumN : ns.centered[m][s] = Float(0)

\* C7 amended: without subject variability normalized_sem returns M zeros,
\* through a centred matrix whose rows are each constant over the subjects:
\* row m holds the row's value minus the mean of the row values.
C7_ZerosThroughConstantCenteredRows ==
  (Valid /\ NsCalled /\ NoSubjectVariability) =>
     /\ ns.kind = "return" /\ Len(ns.ret) = NumM /\ AllZeroVector(ns.ret)
     /\ \A m \in 1..NumM : \A s \in 1..NumN :
          ns.centered[m][s] =
            Sub(values[m][1], np_mean([r \in 1..NumM |-> values[r][1]]))

C7_Witness ==
  /\ values = np_asarray(Example2)
  /\ NsCalled
  /\ ns.ret = << Sqrt(Float(0)), Sqrt(Float(0)), Sqrt(Float(0)) >>
  /\ ns.centered = np_asarray(<< <<-1, -1, -1>>, <<0, 0, 0>>, <<1, 1, 1>> >>)

\* C8: a call changes no cell of the caller's matrix, and a repeated call on
\* the same matrix ends as the earlier one did, with the same result.
C8_PureCalls ==
  [][ /\ values' = values
      /\ (LmCalled /\ lm'.kind # "none") =>
            (lm'.kind = lm.kind /\ lm'.ret = lm.ret)
      /\ (NsCalled /\ ns'.kind # "none") =>
            (ns'.kind = ns.kind /\ ns'.ret = ns.ret)
    ]_vars

C8_Witness ==
  /\ Valid /\ NsCalled /\ LmCalled
  /\ \E m \in 1..NumM : \E s \in 1..NumN : ns.centered[m][s] # values[m][s]

WriteSet ==
  { lm.writes[t] : t \in 1..Len(lm.writes) }

\* C9: the pair loop writes exactly the M(M-1)/2 positions (i, j), i < j,
\* each once, the diagonal and the lower triangle stay 0, the mask selects
\* exactly the written positions, and the squared result is the mean over
\* those pairs of (sample variance of values[i] - values[j]) / (2 N).
C9_PairLoopAndPooledVariance ==
  (Valid /\ LmCalled) =>
     /\ 2 * Len(lm.writes) = NumM * (NumM - 1)
     /\ Cardinality(WriteSet) = Len(lm.writes)
     /\ WriteSet = UpperPairs(NumM)
     /\ \A i \in 1..NumM : \A j \in 1..NumM :
          /\ (i >= j) => lm.sem_diff[i][j] = Float(0)
          /\ lm.mask[i][j] <=> (<<i, j>> \in WriteSet)
     /\ Square(lm.ret) =
          Div(RefPairSum(values, UpperPairs(NumM)),
              Float(Cardinality(UpperPairs(NumM))))

C9_Witness ==
  /\ Valid /\ LmCalled /\ NumM >= 3
  /\ Len(lm.writes) >= 3
  /\ lm.ret.n > 0

RECURSIVE SumSquares(_)
SumSquares(x) ==
  IF Len(x) = 0 THEN Float(0)
  ELSE Add(SumSquares(SubSeq(x, 1, Len(x) - 1)), Square(x[Len(x)]))

\* C10: the square of loftus_mason_sem(values) is the arithmetic mean of the
\* squares of the M entries of normalized_sem(values); for M = 2 both
\* entries of normalized_sem(values) equal loftus_mason_sem(values).
C10_CorrectionsAgreeInMeanSquare ==
  (Valid /\ LmCalled /\ NsCalled) =>
     /\ Square(lm.ret) = Div(SumSquares(ns.ret), Float(NumM))
     /\ (NumM = 2) => (ns.ret[1] = lm.ret /\ ns.ret[2] = lm.ret)

C10_Witness ==
  /\ Valid /\ LmCalled /\ NsCalled /\ NumM >= 3
  /\ lm.ret.n > 0
  /\ \E m \in 1..NumM : ns.ret[m] # lm.ret

====
